---------------------------- MODULE Spec2Model ----------------------------
(***************************************************************************)
(* State-machine models of the notebooks of openvino_notebooks whose       *)
(* behaviour is specified: 112 (NNCF post-training quantization), 214      *)
(* (PaddlePaddle classification, AsyncInferQueue callback), 223 (GPT-2     *)
(* text prediction), the entity-extraction notebook, 105 (MetricWER), 302  *)
(* (quantization-aware training) and the CT-segmentation notebook.         *)
(*                                                                         *)
(* Every notebook is an independent program.  Each has its own variables   *)
(* and its own specification (SpecPTQ, SpecPaddle, ...), in which the      *)
(* variables of the other notebooks stay at their idle value.              *)
(***************************************************************************)
EXTENDS Integers, Sequences, FiniteSets

VARIABLES
    \* notebook 112
    ptq_pc, ptq_files, ptq_model, ptq_log,
    \* notebook 214
    pad_pc, pad_i, pad_jobs, pad_req, total_time, pad_sum, pad_done,
    \* notebook 223, generate_sequence
    gen_pc, input_ids, max_sequence_length, gen_start_len, gen_inferences,
    \* notebook 223, the logits functions
    lg_stage, lg_input, scores, cur_length, min_length, top_k, next_tokens,
    \* entity extraction
    ner_pc, context, ner_field, extract, ner_sizes, ner_scores,
    \* notebook 105, MetricWER
    sum_score, sum_words, wer_samples, wer_raised, wer_ref_words, wer_distance,
    \* notebook 302
    qat_pc, qat_pretrained, qat_model, qat_epoch, best_acc1, acc1_fp32,
    checkpoint, qat_exported,
    \* CT segmentation, two executions of the visual-comparison cell
    sd_pc, sd_rng, sd_seed, data_subset

ptqVars == <<ptq_pc, ptq_files, ptq_model, ptq_log>>
padVars == <<pad_pc, pad_i, pad_jobs, pad_req, total_time, pad_sum, pad_done>>
genVars == <<gen_pc, input_ids, max_sequence_length, gen_start_len, gen_inferences>>
lgVars  == <<lg_stage, lg_input, scores, cur_length, min_length, top_k, next_tokens>>
nerVars == <<ner_pc, context, ner_field, extract, ner_sizes, ner_scores>>
werVars == <<sum_score, sum_words, wer_samples, wer_raised, wer_ref_words,
            wer_distance>>
qatVars == <<qat_pc, qat_pretrained, qat_model, qat_epoch, best_acc1, acc1_fp32,
             checkpoint, qat_exported>>
sdVars  == <<sd_pc, sd_rng, sd_seed, data_subset>>

vars == <<ptqVars, padVars, genVars, lgVars, nerVars, werVars, qatVars, sdVars>>

\* What each notebook leaves alone: the variables of all the others.
PtqFrame == UNCHANGED <<padVars, genVars, lgVars, nerVars, werVars, qatVars, sdVars>>
PadFrame == UNCHANGED <<ptqVars, genVars, lgVars, nerVars, werVars, qatVars, sdVars>>
GenFrame == UNCHANGED <<ptqVars, padVars, lgVars, nerVars, werVars, qatVars, sdVars>>
LgFrame  == UNCHANGED <<ptqVars, padVars, genVars, nerVars, werVars, qatVars, sdVars>>
NerFrame == UNCHANGED <<ptqVars, padVars, genVars, lgVars, werVars, qatVars, sdVars>>
WerFrame == UNCHANGED <<ptqVars, padVars, genVars, lgVars, nerVars, qatVars, sdVars>>
QatFrame == UNCHANGED <<ptqVars, padVars, genVars, lgVars, nerVars, werVars, sdVars>>
SdFrame  == UNCHANGED <<ptqVars, padVars, genVars, lgVars, nerVars, werVars, qatVars>>

\* min, max and np.min on integers.
Min2(a, b) == IF a <= b THEN a ELSE b
Max2(a, b) == IF a >= b THEN a ELSE b
SetMin(S) == CHOOSE x \in S : \A y \in S : x <= y

(***************************************************************************)
(* Notebook 112: post-training quantization with NNCF.                     *)
(* The notebook is run top to bottom; ptq_pc is the next cell to run.  A   *)
(* cell that raises stops the run (ptq_pc = "failed").                     *)
(***************************************************************************)
fp32_onnx_path == "output/resnet50_fp32.onnx"
fp32_ir_path   == "output/resnet50_fp32.xml"
int8_onnx_path == "output/resnet50_int8.onnx"
int8_ir_path   == "output/resnet50_int8.xml"

\* OUTPUT_DIR is created with exist_ok=True: files of an earlier run may be there.
OutputFiles == {fp32_onnx_path, fp32_ir_path, int8_onnx_path, int8_ir_path}
\* MODEL_DIR / fp32_checkpoint_filename and DATASET_DIR.
fp32_checkpoint == "model/resnet50_fp32.pth"
DATASET_DIR == "output/tiny-imagenet-200"

\* One entry of the history of the run: the operation, the file it wrote or read,
\* and whether the file it consumes existed when it ran.
Event(op, path, present) == [op |-> op, path |-> path, present |-> present]

PtqInit ==
    /\ ptq_pc = "download_checkpoint"
    /\ ptq_files \in SUBSET (OutputFiles \cup {fp32_checkpoint, DATASET_DIR})
    /\ ptq_model = "fp32"
    /\ ptq_log = <<>>

PtqIdle ==
    /\ ptq_pc = "idle"
    /\ ptq_files = {}
    /\ ptq_model = "fp32"
    /\ ptq_log = <<>>

\* download_file(fp32_pth_url, directory=MODEL_DIR, filename=fp32_checkpoint_filename):
\* the checkpoint is there afterwards, or the download raises.
DownloadCheckpoint ==
    /\ ptq_pc = "download_checkpoint"
    /\ \E downloaded \in BOOLEAN :
         IF downloaded
         THEN /\ ptq_files' = ptq_files \cup {fp32_checkpoint}
              /\ ptq_pc' = "prepare_dataset"
         ELSE /\ ptq_pc' = "failed"
              /\ UNCHANGED ptq_files
    /\ UNCHANGED <<ptq_model, ptq_log>>
    /\ PtqFrame

\* if not DATASET_DIR.exists(): download_tiny_imagenet_200(OUTPUT_DIR); ...
PrepareDataset ==
    /\ ptq_pc = "prepare_dataset"
    /\ ptq_files' = ptq_files \cup {DATASET_DIR}
    /\ ptq_pc' = "create_model"
    /\ UNCHANGED <<ptq_model, ptq_log>>
    /\ PtqFrame

\* model = create_model(MODEL_DIR / fp32_checkpoint_filename): the checkpoint is
\* loaded, or RuntimeError("There is no checkpoint to load") is raised.
CreateModel ==
    /\ ptq_pc = "create_model"
    /\ ptq_pc' = IF fp32_checkpoint \in ptq_files THEN "validate_fp32" ELSE "failed"
    /\ ptq_model' = "fp32"
    /\ UNCHANGED <<ptq_files, ptq_log>>
    /\ PtqFrame

\* acc1 = validate(val_loader, model)       (section I)
ValidateFP32 ==
    /\ ptq_pc = "validate_fp32"
    /\ ptq_log' = Append(ptq_log, Event("validate_" \o ptq_model, "", TRUE))
    /\ ptq_pc' = "export_fp32"
    /\ UNCHANGED <<ptq_files, ptq_model>>
    /\ PtqFrame

\* torch.onnx.export(model, dummy_input, fp32_onnx_path, opset_version=10)
ExportFP32 ==
    /\ ptq_pc = "export_fp32"
    /\ ptq_files' = ptq_files \cup {fp32_onnx_path}
    /\ ptq_log' = Append(ptq_log, Event("export_" \o ptq_model, fp32_onnx_path, TRUE))
    /\ ptq_pc' = "quantize"
    /\ UNCHANGED ptq_model
    /\ PtqFrame

\* compression_ctrl, model = create_compressed_model(model, nncf_config)
CreateCompressedModel ==
    /\ ptq_pc = "quantize"
    /\ ptq_model' = "int8"
    /\ ptq_log' = Append(ptq_log, Event("create_compressed_model", "", TRUE))
    /\ ptq_pc' = "validate_int8"
    /\ UNCHANGED ptq_files
    /\ PtqFrame

\* acc1 = validate(val_loader, model)       (section II, step 4)
ValidateINT8 ==
    /\ ptq_pc = "validate_int8"
    /\ ptq_log' = Append(ptq_log, Event("validate_" \o ptq_model, "", TRUE))
    /\ ptq_pc' = "export_int8"
    /\ UNCHANGED <<ptq_files, ptq_model>>
    /\ PtqFrame

\* compression_ctrl.export_model(int8_onnx_path)
ExportINT8 ==
    /\ ptq_pc = "export_int8"
    /\ ptq_files' = ptq_files \cup {int8_onnx_path}
    /\ ptq_log' = Append(ptq_log, Event("export_" \o ptq_model, int8_onnx_path, TRUE))
    /\ ptq_pc' = "mo_fp32"
    /\ UNCHANGED ptq_model
    /\ PtqFrame

\* A cell  if not ir.exists(): !mo --input_model onnx ...; assert ir.exists()
\* Model Optimizer either writes the IR or fails; the assert then stops the run.
MoCell(here, onnx, ir, next) ==
    /\ ptq_pc = here
    /\ IF ir \in ptq_files
       THEN /\ ptq_pc' = next
            /\ UNCHANGED <<ptq_files, ptq_log>>
       ELSE \E created \in BOOLEAN :
            /\ ptq_log' = Append(ptq_log, Event("mo", onnx, onnx \in ptq_files))
            /\ ptq_files' = IF created THEN ptq_files \cup {ir} ELSE ptq_files
            /\ ptq_pc' = IF ir \in ptq_files' THEN next ELSE "failed"
    /\ UNCHANGED ptq_model
    /\ PtqFrame

\* The same cell without its assert: the run goes on whether or not the IR exists.
MoCellNoAssert(here, onnx, ir, next) ==
    /\ ptq_pc = here
    /\ IF ir \in ptq_files
       THEN /\ ptq_pc' = next
            /\ UNCHANGED <<ptq_files, ptq_log>>
       ELSE \E created \in BOOLEAN :
            /\ ptq_log' = Append(ptq_log, Event("mo", onnx, onnx \in ptq_files))
            /\ ptq_files' = IF created THEN ptq_files \cup {ir} ELSE ptq_files
            /\ ptq_pc' = next
    /\ UNCHANGED ptq_model
    /\ PtqFrame

ConvertFP32NoAssert == MoCellNoAssert("mo_fp32", fp32_onnx_path, fp32_ir_path, "mo_int8")

\* if not fp32_ir_path.exists(): !mo --input_model "$fp32_onnx_path" ...
ConvertFP32 == MoCell("mo_fp32", fp32_onnx_path, fp32_ir_path, "mo_int8")

\* if not int8_ir_path.exists(): !mo --input_model "$int8_onnx_path" ...
ConvertINT8 == MoCell("mo_int8", int8_onnx_path, int8_ir_path, "bench_fp32")

\* benchmark_output = ! benchmark_app -m "$fp32_ir_path" -d CPU -api async -t 15
BenchmarkFP32 ==
    /\ ptq_pc = "bench_fp32"
    /\ ptq_log' = Append(ptq_log,
                         Event("benchmark_app", fp32_ir_path, fp32_ir_path \in ptq_files))
    /\ ptq_pc' = "bench_int8"
    /\ UNCHANGED <<ptq_files, ptq_model>>
    /\ PtqFrame

\* benchmark_output = ! benchmark_app -m "$int8_ir_path" -d CPU -api async -t 15
BenchmarkINT8 ==
    /\ ptq_pc = "bench_int8"
    /\ ptq_log' = Append(ptq_log,
                         Event("benchmark_app", int8_ir_path, int8_ir_path \in ptq_files))
    /\ ptq_pc' = "done"
    /\ UNCHANGED <<ptq_files, ptq_model>>
    /\ PtqFrame

PtqNext ==
    \/ DownloadCheckpoint
    \/ PrepareDataset
    \/ CreateModel
    \/ ValidateFP32
    \/ ExportFP32
    \/ CreateCompressedModel
    \/ ValidateINT8
    \/ ExportINT8
    \/ ConvertFP32
    \/ ConvertINT8
    \/ BenchmarkFP32
    \/ BenchmarkINT8

(***************************************************************************)
(* Notebook 214: the LATENCY and THROUGHPUT runs.  The main thread submits *)
(* `loop` requests to an AsyncInferQueue and waits for all of them; every  *)
(* infer request runs `callback` on its own inference thread when its      *)
(* inference completes.  start_async blocks while no request is idle, and  *)
(* a request becomes idle only after its callback returned.                *)
(***************************************************************************)
\* loop = 100 in the notebook; the model submits MaxLoop requests.
MaxLoop == 3
\* The number of infer requests AsyncInferQueue(compiled_model) creates is chosen
\* by the device from the performance hint; the model allows 1..MaxJobs.
MaxJobs == 2
\* (time.time() - submit_time) * 1000 is some positive number of milliseconds.
MaxLatency == 2

Jobs == 1..MaxJobs

IdleRequest == [st |-> "idle", i |-> 0, latency |-> 0, loaded |-> 0]

PadInit ==
    /\ pad_pc = "submit"
    /\ pad_i = 0
    /\ pad_jobs \in Jobs
    /\ pad_req = [j \in Jobs |-> IdleRequest]
    /\ total_time = 0
    /\ pad_sum = 0
    /\ pad_done = <<>>

PadIdle ==
    /\ pad_pc = "idle"
    /\ pad_i = 0
    /\ pad_jobs = 1
    /\ pad_req = [j \in Jobs |-> IdleRequest]
    /\ total_time = 0
    /\ pad_sum = 0
    /\ pad_done = <<>>

\* for i in range(loop): infer_queue.start_async({...}, (time.time(), i))
StartAsync(j) ==
    /\ pad_pc = "submit"
    /\ pad_i < MaxLoop
    /\ j <= pad_jobs
    /\ pad_req[j].st = "idle"
    /\ pad_req' = [pad_req EXCEPT ![j] = [st |-> "infer", i |-> pad_i,
                                          latency |-> 0, loaded |-> 0]]
    /\ pad_i' = pad_i + 1
    /\ pad_pc' = IF pad_i + 1 = MaxLoop THEN "wait" ELSE "submit"
    /\ UNCHANGED <<pad_jobs, total_time, pad_sum, pad_done>>
    /\ PadFrame

\* callback, up to the read of the global in `total_time + latency`: the latency
\* is measured and the current value of total_time is loaded.  Both branches of
\* `if (i == 0)` add their latency to total_time in the same way.
CallbackLoad(j) ==
    /\ j <= pad_jobs
    /\ pad_req[j].st = "infer"
    /\ \E latency \in 1..MaxLatency :
        /\ pad_req' = [pad_req EXCEPT ![j].st = "loaded",
                                      ![j].latency = latency,
                                      ![j].loaded = total_time]
        /\ pad_sum' = pad_sum + latency
    /\ UNCHANGED <<pad_pc, pad_i, pad_jobs, total_time, pad_done>>
    /\ PadFrame

\* callback, the store of `total_time = total_time + latency`; the callback
\* returns and the request goes back to the queue's idle handles.
CallbackStore(j) ==
    /\ j <= pad_jobs
    /\ pad_req[j].st = "loaded"
    /\ total_time' = pad_req[j].loaded + pad_req[j].latency
    /\ pad_done' = Append(pad_done, pad_req[j].i)
    /\ pad_req' = [pad_req EXCEPT ![j] = IdleRequest]
    /\ UNCHANGED <<pad_pc, pad_i, pad_jobs, pad_sum>>
    /\ PadFrame

\* infer_queue.wait_all() returns when every request is idle.
WaitAll ==
    /\ pad_pc = "wait"
    /\ \A j \in Jobs : pad_req[j].st = "idle"
    /\ pad_pc' = "done"
    /\ UNCHANGED <<pad_i, pad_jobs, pad_req, total_time, pad_sum, pad_done>>
    /\ PadFrame

PadNext ==
    \/ \E j \in Jobs : StartAsync(j)
    \/ \E j \in Jobs : CallbackLoad(j)
    \/ \E j \in Jobs : CallbackStore(j)
    \/ WaitAll

(***************************************************************************)
(* Notebook 223: GPT-2 text prediction.  Scores are arrays of shape        *)
(* (rows, vocabulary), rows and tokens indexed from 0 as in numpy.         *)
(***************************************************************************)
\* The vocabulary size (50257 for GPT-2).
VocabSize == 3
\* The rows (batch size) of the arrays given to the logits functions.
NumRows == 1
\* Logits are 0..MaxLogit.
MaxLogit == 1
\* Lengths given to process_logits are 0..MaxLen.
MaxLen == 1
\* max_sequence_length given to generate_sequence is 1..MaxSeqLen (default 128).
MaxSeqLen == 4

\* -float("inf"): below every logit.
NegInf == -1000

Vocab == 0..(VocabSize - 1)
LogitValues == 0..MaxLogit
\* eos_token_id = tokenizer.eos_token_id: the last token of the GPT-2 vocabulary.
eos_token_id == VocabSize - 1

\* process_logits without its masking of the eos score.
process_logits_never(cl, sc, eos, ml) == sc

\* def process_logits(cur_length, scores, eos_token_id, min_length=0)
process_logits(cl, sc, eos, ml) ==
    IF cl < ml
    THEN [r \in DOMAIN sc |-> [sc[r] EXCEPT ![eos] = NegInf]]
    ELSE sc

\* -np.sort(-scores): a row sorted in descending order.
RECURSIVE SortDesc(_, _)
SortDesc(row, idx) ==
    IF idx = {} THEN <<>>
    ELSE LET m == CHOOSE t \in idx : \A u \in idx : row[t] >= row[u]
         IN  <<row[m]>> \o SortDesc(row, idx \ {m})

\* def get_top_k_logits(scores, top_k)
get_top_k_logits(sc, tk) ==
    LET shape_last   == Cardinality(Vocab)
        k            == Min2(Max2(tk, 1), shape_last)
        top_k_scores == [r \in DOMAIN sc |-> SubSeq(SortDesc(sc[r], Vocab), 1, k)]
        np_min       == SetMin({top_k_scores[r][c] : r \in DOMAIN sc, c \in 1..k})
        indices_to_remove == [r \in DOMAIN sc |-> [t \in Vocab |-> sc[r][t] < np_min]]
    IN  [r \in DOMAIN sc |->
            [t \in Vocab |-> IF indices_to_remove[r][t] THEN NegInf ELSE sc[r][t]]]

\* probs = softmax(next_token_scores); np.random.choice(probs.shape[-1], 1, p=probs[0]):
\* the tokens of row 0 with a non-zero probability.  exp(-inf) is 0; a row of -inf
\* only gives NaN probabilities, and the choice raises.
Choices(sc) ==
    IF \A t \in Vocab : sc[0][t] = NegInf THEN {}
    ELSE {t \in Vocab : sc[0][t] # NegInf}

\* top_k = 20 in generate_sequence.
gen_top_k == 20
\* generate_sequence calls process_logits without min_length: its default, 0.
default_min_length == 0

\* The break condition without its test of the length.
BreakOnEosOnly(cur_input_len, tok) == tok = eos_token_id

\* if cur_input_len == max_sequence_length or next_tokens == eos_token_id: break
BreakLoop(cur_input_len, tok) ==
    cur_input_len = max_sequence_length \/ tok = eos_token_id

\* Token sequences of length lo..hi.
RECURSIVE TokenSeqs(_, _)
TokenSeqs(lo, hi) ==
    IF hi < lo THEN {}
    ELSE TokenSeqs(lo, hi - 1) \cup [1..hi -> Vocab]

\* generate_sequence(input_ids, attention_mask, max_sequence_length) is called
\* with a tokenized, non-empty text no longer than max_sequence_length.
GenInit ==
    /\ gen_pc = "loop"
    /\ max_sequence_length \in 1..MaxSeqLen
    /\ input_ids \in TokenSeqs(1, max_sequence_length)
    /\ gen_start_len = Len(input_ids)
    /\ gen_inferences = 0

GenIdle ==
    /\ gen_pc = "idle"
    /\ max_sequence_length = 1
    /\ input_ids = <<0>>
    /\ gen_start_len = 1
    /\ gen_inferences = 0

\* One iteration of `while True`: the model is run on the current sequence (any
\* logits may come out), the next-token logits are processed, filtered and a token
\* is sampled; the loop breaks or the token is appended.
GenerateStep ==
    /\ gen_pc = "loop"
    /\ LET cur_input_len == Len(input_ids) IN
       \E next_token_logits \in [{0} -> [Vocab -> LogitValues]] :
         LET processed == process_logits(cur_input_len, next_token_logits,
                                         eos_token_id, default_min_length)
             next_token_scores == get_top_k_logits(processed, gen_top_k)
         IN  \E tok \in Choices(next_token_scores) :
               /\ gen_inferences' = gen_inferences + 1
               /\ IF BreakLoop(cur_input_len, tok)
                  THEN /\ gen_pc' = "done"
                       /\ UNCHANGED input_ids
                  ELSE /\ input_ids' = Append(input_ids, tok)
                       /\ UNCHANGED gen_pc
    /\ UNCHANGED <<max_sequence_length, gen_start_len>>
    /\ GenFrame

GenNext == GenerateStep

(***************************************************************************)
(* The logits functions of notebook 223 on their own, applied in the order *)
(* generate_sequence applies them: process_logits, get_top_k_logits, then  *)
(* softmax and np.random.choice.  The inputs are drawn from bounded sets.  *)
(***************************************************************************)
Rows == 0..(NumRows - 1)

LgInit ==
    /\ lg_stage = "input"
    /\ lg_input \in [Rows -> [Vocab -> LogitValues]]
    /\ scores = lg_input
    /\ cur_length \in 0..MaxLen
    /\ min_length \in 0..MaxLen
    /\ top_k \in 0..(VocabSize + 1)
    /\ next_tokens = -1

LgIdle ==
    /\ lg_stage = "idle"
    /\ lg_input = [r \in Rows |-> [t \in Vocab |-> 0]]
    /\ scores = lg_input
    /\ cur_length = 0
    /\ min_length = 0
    /\ top_k = 0
    /\ next_tokens = -1

\* next_token_scores = process_logits(cur_input_len, next_token_logits, eos_token_id)
ApplyProcessLogits ==
    /\ lg_stage = "input"
    /\ scores' = process_logits(cur_length, scores, eos_token_id, min_length)
    /\ lg_stage' = "processed"
    /\ UNCHANGED <<lg_input, cur_length, min_length, top_k, next_tokens>>
    /\ LgFrame

\* next_token_scores = get_top_k_logits(next_token_scores, top_k)
ApplyTopK ==
    /\ lg_stage = "processed"
    /\ scores' = get_top_k_logits(scores, top_k)
    /\ lg_stage' = "filtered"
    /\ UNCHANGED <<lg_input, cur_length, min_length, top_k, next_tokens>>
    /\ LgFrame

\* probs = softmax(next_token_scores); next_tokens = np.random.choice(...)
SampleToken ==
    /\ lg_stage = "filtered"
    /\ \E tok \in Choices(scores) : next_tokens' = tok
    /\ lg_stage' = "sampled"
    /\ UNCHANGED <<lg_input, scores, cur_length, min_length, top_k>>
    /\ LgFrame

LgNext ==
    \/ ApplyProcessLogits
    \/ ApplyTopK
    \/ SampleToken

(***************************************************************************)
(* Entity extraction: run_analyze_entities(context).                       *)
(* A context is a sequence of segments: a run of whitespace, a run of      *)
(* punctuation characters, or a word; a word's `pieces` is the number of   *)
(* WordPiece tokens the vocabulary splits it into.  Scores are in          *)
(* thousandths.                                                            *)
(***************************************************************************)
\* if len(context) > 380
max_context_len == 380
\* input_shape[1] = Dimension(1, 384)
dimension_upper_bound == 384
\* confidence_threshold = 0.4
confidence_threshold == 400

\* A context has at most MaxSegments segments.
MaxSegments == 2
\* The first MaxFields fields of the template are analyzed.
MaxFields == 2

template == <<"building", "company", "persons", "city",
              "state", "height", "floor", "address">>

SegmentLengths == {1, max_context_len \div 2, max_context_len}
Scores == {confidence_threshold - 1, confidence_threshold, confidence_threshold + 1}

Space(n)    == [kind |-> "space", chars |-> n, pieces |-> 0]
Punct(n)    == [kind |-> "punct", chars |-> n, pieces |-> n]
Word(n, p)  == [kind |-> "word",  chars |-> n, pieces |-> p]

Segments ==
    {Space(n) : n \in SegmentLengths} \cup {Punct(n) : n \in SegmentLengths}
    \cup {Word(n, 1) : n \in SegmentLengths} \cup {Word(n, n) : n \in SegmentLengths}

RECURSIVE SegmentSeqs(_)
SegmentSeqs(n) ==
    IF n = 0 THEN {<<>>}
    ELSE SegmentSeqs(n - 1) \cup [1..n -> Segments]

\* len(context): the number of characters.
RECURSIVE TextLen(_)
TextLen(text) == IF text = <<>> THEN 0 ELSE Head(text).chars + TextLen(Tail(text))

\* tokens.text_to_tokens(text, vocab): the text is split into words at whitespace,
\* every punctuation character is a word of its own, and every word is encoded
\* into its WordPiece tokens.  The number of tokens.
RECURSIVE text_to_tokens(_)
text_to_tokens(text) ==
    IF text = <<>> THEN 0 ELSE Head(text).pieces + text_to_tokens(Tail(text))

\* entity_to_find = field + "?": the field's word and a question mark.
entity_to_find(field) == <<Word(Len(field), 1), Punct(1)>>

\* prepare_input: [cls] + entity_tokens + [sep] + context_tokens + [sep];
\* the length of input_ids.
prepare_input(entity_tokens, context_tokens) ==
    1 + entity_tokens + 1 + context_tokens + 1

\* f"{score:.2f}": the score in hundredths.
Format2f(score) == (score + 5) \div 10

NerInit ==
    /\ ner_pc = "start"
    /\ context \in SegmentSeqs(MaxSegments)
    /\ ner_field = 1
    /\ extract = <<>>
    /\ ner_sizes = {}
    /\ ner_scores = <<>>

NerIdle ==
    /\ ner_pc = "idle"
    /\ context = <<>>
    /\ ner_field = 1
    /\ extract = <<>>
    /\ ner_sizes = {}
    /\ ner_scores = <<>>

\* run_analyze_entities, up to the loop: the two checks of the context.
AnalyzeStart ==
    /\ ner_pc = "start"
    /\ ner_pc' = IF TextLen(context) = 0 THEN "error_empty"
                 ELSE IF TextLen(context) > max_context_len THEN "error_too_long"
                 ELSE "fields"
    /\ extract' = <<>>
    /\ UNCHANGED <<context, ner_field, ner_sizes, ner_scores>>
    /\ NerFrame

\* One iteration of `for field in template`: get_best_entity builds the model input
\* from the entity and the context, runs the model (any score may come out) and the
\* entity is appended when its score reaches the threshold.  A context without
\* tokens leaves postprocess with an empty score matrix, whose argmax raises.
AnalyzeField ==
    /\ ner_pc = "fields"
    /\ ner_field <= MaxFields
    /\ LET field == template[ner_field]
           context_tokens == text_to_tokens(context)
           entity_tokens == text_to_tokens(entity_to_find(field))
       IN  /\ ner_sizes' = ner_sizes \cup {prepare_input(entity_tokens, context_tokens)}
           /\ IF context_tokens = 0
              THEN /\ ner_pc' = "raised"
                   /\ UNCHANGED <<extract, ner_scores, ner_field>>
              ELSE \E score \in Scores :
                   /\ ner_scores' = Append(ner_scores, score)
                   /\ extract' = IF score >= confidence_threshold
                                 THEN Append(extract, [Type |-> field,
                                                       Score |-> Format2f(score)])
                                 ELSE extract
                   /\ ner_field' = ner_field + 1
                   /\ UNCHANGED ner_pc
    /\ UNCHANGED context
    /\ NerFrame

\* After the loop: res = {"Extraction": extract, ...} is printed.
AnalyzeFinish ==
    /\ ner_pc = "fields"
    /\ ner_field > MaxFields
    /\ ner_pc' = "printed"
    /\ UNCHANGED <<context, ner_field, extract, ner_sizes, ner_scores>>
    /\ NerFrame

NerNext ==
    \/ AnalyzeStart
    \/ AnalyzeField
    \/ AnalyzeFinish

(***************************************************************************)
(* Notebook 105: MetricWER.  Strings are sequences of characters; a model  *)
(* output is the sequence of its argmax tokens.                            *)
(***************************************************************************)
\* A model output has at most MaxOutputTokens tokens.
MaxOutputTokens == 3
\* A transcript has at most MaxTranscriptLen characters.
MaxTranscriptLen == 3
\* update is called at most MaxSamples times.
MaxSamples == 3

pad_token == "<pad>"
words_delimiter == "|"
\* The tokens of MetricWER.alphabet the model uses: two letters of it.
alphabet == {pad_token, words_delimiter, "a", "b"}
\* LibriSpeechDataLoader stores transcript.upper(); a transcript has a word.
TranscriptChars == {"A", "B", " "}

RECURSIVE SeqsUpTo(_, _)
SeqsUpTo(S, n) == IF n = 0 THEN {<<>>} ELSE SeqsUpTo(S, n - 1) \cup [1..n -> S]

\* str.lower()
LowerChar(c) == IF c = "A" THEN "a" ELSE IF c = "B" THEN "b" ELSE c
Lower(s) == [i \in DOMAIN s |-> LowerChar(s[i])]

\* str.split(): the words of a string, split at whitespace.
RECURSIVE SplitFrom(_, _, _)
SplitFrom(s, i, word) ==
    IF i > Len(s) THEN (IF word = <<>> THEN <<>> ELSE <<word>>)
    ELSE IF s[i] = " "
         THEN (IF word = <<>> THEN <<>> ELSE <<word>>) \o SplitFrom(s, i + 1, <<>>)
         ELSE SplitFrom(s, i + 1, Append(word, s[i]))
Split(s) == SplitFrom(s, 1, <<>>)

\* [token_group[0] for token_group in groupby(tokens)]
RECURSIVE GroupBy(_)
GroupBy(tokens) ==
    IF Len(tokens) <= 1 THEN tokens
    ELSE IF tokens[1] = tokens[2] THEN GroupBy(Tail(tokens))
         ELSE <<tokens[1]>> \o GroupBy(Tail(tokens))

\* [t for t in tokens if t != MetricWER.pad_token]
RECURSIVE DropPad(_)
DropPad(tokens) ==
    IF tokens = <<>> THEN <<>>
    ELSE (IF Head(tokens) # pad_token THEN <<Head(tokens)>> ELSE <<>>)
         \o DropPad(Tail(tokens))

\* MetricWER.decode_logits: repeated tokens are merged, pad tokens dropped, the
\* words delimiter becomes a space.  (strip and the split(' ')/join(' ') round
\* trip change nothing str.split() sees.)
decode_logits(tokens) ==
    LET merged == GroupBy(tokens)
        kept   == DropPad(merged)
    IN  Lower([i \in DOMAIN kept |-> IF kept[i] = words_delimiter THEN " " ELSE kept[i]])

\* MetricWER._editdistance_eval(source, target): distance[n][m] of the table.
RECURSIVE Distance(_, _, _, _)
Distance(source, target, i, j) ==
    IF j = 0 THEN i
    ELSE IF i = 0 THEN j
    ELSE LET cost == IF source[i] = target[j] THEN 0 ELSE 1
         IN  Min2(Min2(Distance(source, target, i - 1, j) + 1,
                       Distance(source, target, i, j - 1) + 1),
                  Distance(source, target, i - 1, j - 1) + cost)
editdistance_eval(source, target) == Distance(source, target, Len(source), Len(target))

Transcripts == {s \in SeqsUpTo(TranscriptChars, MaxTranscriptLen) : Split(s) # <<>>}

\* MetricWER.avg_value, as the fraction <<numerator, denominator>>.
avg_value == IF sum_words # 0 THEN <<sum_score, sum_words>> ELSE <<0, 1>>

WerInit ==
    /\ sum_score = 0
    /\ sum_words = 0
    /\ wer_samples = 0
    /\ wer_raised = FALSE
    /\ wer_ref_words = 0
    /\ wer_distance = 0

WerIdle == WerInit

\* MetricWER._get_metric_per_sample(annotation, prediction): what it adds to
\* _sum_score and to _sum_words, and whether the division by cur_words that
\* follows raises ZeroDivisionError.
get_metric_per_sample(annotation, prediction) ==
    [cur_score |-> editdistance_eval(Split(annotation), Split(prediction)),
     cur_words |-> Len(Split(annotation)),
     raises    |-> Len(Split(annotation)) = 0]

\* MetricWER.update(output, target) for one sample: the output is decoded, the
\* target lowered, and self._get_metric_per_sample(decoded[i], target[i]) is called.
\* wer_ref_words and wer_distance record the sample's reference words and the edit
\* distance between the reference transcript and the decoded prediction.  An
\* exception in update ends the evaluation.
Update(output, transcript) ==
    /\ wer_samples < MaxSamples
    /\ ~wer_raised
    /\ LET decoded == decode_logits(output)
           target  == Lower(transcript)
           sample  == get_metric_per_sample(decoded, target)
       IN  /\ sum_score' = sum_score + sample.cur_score
           /\ sum_words' = sum_words + sample.cur_words
           /\ wer_ref_words' = wer_ref_words + Len(Split(target))
           /\ wer_distance' = wer_distance + editdistance_eval(Split(target), Split(decoded))
           /\ wer_raised' = sample.raises
    /\ wer_samples' = wer_samples + 1
    /\ WerFrame

\* MetricWER.reset()
Reset ==
    /\ wer_samples > 0
    /\ ~wer_raised
    /\ sum_score' = 0
    /\ sum_words' = 0
    /\ wer_ref_words' = 0
    /\ wer_distance' = 0
    /\ UNCHANGED <<wer_samples, wer_raised>>
    /\ WerFrame

WerNext ==
    \/ \E output \in SeqsUpTo(alphabet, MaxOutputTokens),
          transcript \in Transcripts :
            Update(output, transcript)
    \/ Reset

(***************************************************************************)
(* Notebook 302: quantization-aware training.  Weights are a record of an  *)
(* identity and of the accuracy validate(val_loader, model) measures for   *)
(* them (val_loader is not shuffled: the same weights validate the same).  *)
(***************************************************************************)
\* epochs = 4
epochs == 4
\* Validation accuracies are 0..MaxAcc.
MaxAcc == 2

Accs == 0..MaxAcc
Weights(id, acc) == [id |-> id, acc |-> acc]
NoWeights == [id |-> <<"none", 0>>, acc |-> 0]

\* download_file(fp32_pth_url, ...): the checkpoint {"state_dict", "acc1"} of the
\* pre-trained model, as the training loop below saves one.
QatInit ==
    /\ qat_pc = "fp32"
    /\ qat_pretrained \in BOOLEAN
    /\ \E a \in Accs : qat_model = Weights(<<"initial", 0>>, a)
    /\ \E a \in Accs : checkpoint = [state_dict |-> Weights(<<"downloaded", 0>>, a), acc1 |-> a]
    /\ qat_epoch = 0
    /\ best_acc1 = 0
    /\ acc1_fp32 = 0
    /\ qat_exported = [onnx |-> NoWeights, compressed |-> NoWeights]

QatIdle ==
    /\ qat_pc = "idle"
    /\ qat_pretrained = TRUE
    /\ qat_model = Weights(<<"initial", 0>>, 0)
    /\ checkpoint = [state_dict |-> Weights(<<"downloaded", 0>>, 0), acc1 |-> 0]
    /\ qat_epoch = 0
    /\ best_acc1 = 0
    /\ acc1_fp32 = 0
    /\ qat_exported = [onnx |-> NoWeights, compressed |-> NoWeights]

\* if pretrained_on_tiny_imagenet: the checkpoint is loaded into the model.
LoadCheckpoint ==
    /\ qat_pc = "fp32"
    /\ qat_pretrained
    /\ qat_model' = checkpoint.state_dict
    /\ acc1_fp32' = checkpoint.acc1
    /\ qat_pc' = "export"
    /\ UNCHANGED <<qat_pretrained, qat_epoch, best_acc1, checkpoint, qat_exported>>
    /\ QatFrame

\* else: best_acc1 = 0, and the training loop starts.
StartTraining ==
    /\ qat_pc = "fp32"
    /\ ~qat_pretrained
    /\ best_acc1' = 0
    /\ qat_epoch' = 0
    /\ qat_pc' = "train"
    /\ UNCHANGED <<qat_pretrained, qat_model, acc1_fp32, checkpoint, qat_exported>>
    /\ QatFrame

\* One epoch of the loop: train changes the weights of model, validate measures
\* them, and the checkpoint is saved when they are the best so far.
TrainEpoch ==
    /\ qat_pc = "train"
    /\ qat_epoch < epochs
    /\ \E acc1 \in Accs :
         LET is_best == acc1 > best_acc1 IN
         /\ qat_model' = Weights(<<"epoch", qat_epoch>>, acc1)
         /\ best_acc1' = Max2(acc1, best_acc1)
         /\ checkpoint' = IF is_best
                          THEN [state_dict |-> qat_model', acc1 |-> acc1]
                          ELSE checkpoint
    /\ qat_epoch' = qat_epoch + 1
    /\ UNCHANGED <<qat_pc, qat_pretrained, acc1_fp32, qat_exported>>
    /\ QatFrame

\* After the loop: acc1_fp32 = best_acc1.
EndTraining ==
    /\ qat_pc = "train"
    /\ qat_epoch = epochs
    /\ acc1_fp32' = best_acc1
    /\ qat_pc' = "export"
    /\ UNCHANGED <<qat_pretrained, qat_model, qat_epoch, best_acc1, checkpoint,
                   qat_exported>>
    /\ QatFrame

\* torch.onnx.export(model, dummy_input, fp32_onnx_path)
ExportFP32Onnx ==
    /\ qat_pc = "export"
    /\ qat_exported' = [qat_exported EXCEPT !.onnx = qat_model]
    /\ qat_pc' = "compress"
    /\ UNCHANGED <<qat_pretrained, qat_model, qat_epoch, best_acc1, acc1_fp32, checkpoint>>
    /\ QatFrame

\* compression_ctrl, model = create_compressed_model(model, nncf_config)
CompressModel ==
    /\ qat_pc = "compress"
    /\ qat_exported' = [qat_exported EXCEPT !.compressed = qat_model]
    /\ qat_model' = Weights(<<"int8", 0>>, qat_model.acc)
    /\ qat_pc' = "finetune"
    /\ UNCHANGED <<qat_pretrained, qat_epoch, best_acc1, acc1_fp32, checkpoint>>
    /\ QatFrame

QatNext ==
    \/ LoadCheckpoint
    \/ StartTraining
    \/ TrainEpoch
    \/ EndTraining
    \/ ExportFP32Onnx
    \/ CompressModel

(***************************************************************************)
(* CT segmentation: the visual-comparison cell, executed twice on the same *)
(* dataset (executions 1 and 2).  `random` is a deterministic generator:   *)
(* what it draws and its next state are functions of its state.            *)
(***************************************************************************)
\* The generator has RngStates states.
RngStates == 6
\* `seed` is one of MaxSeed + 1 values.
MaxSeed == 1

Executions == {1, 2}
\* list(background_slices) and list(kidney_slices) of the dataset.
background_slices == <<"b0", "b1", "b2">>
kidney_slices == <<"k0", "k1", "k2">>

\* The state of `random` after one use.
Advance(state) == (state + 1) % RngStates

Remove(s, i) == [k \in 1..(Len(s) - 1) |-> IF k < i THEN s[k] ELSE s[k + 1]]

\* random.sample(population, 2) in state `state`: two different elements.
random_sample(population, state) ==
    LET i == (state % Len(population)) + 1
        rest == Remove(population, i)
        j == (Advance(state) % Len(rest)) + 1
    IN  <<population[i], rest[j]>>

\* random.seed(seed): the state is a function of the seed.
random_seed(seed) == (seed * 3 + 2) % RngStates

SdInit ==
    /\ sd_pc = [e \in Executions |-> "sample"]
    /\ sd_rng \in [Executions -> 0..(RngStates - 1)]
    /\ sd_seed \in [Executions -> 0..MaxSeed]
    /\ data_subset = [e \in Executions |-> <<>>]

SdIdle ==
    /\ sd_pc = [e \in Executions |-> "idle"]
    /\ sd_rng = [e \in Executions |-> 0]
    /\ sd_seed = [e \in Executions |-> 0]
    /\ data_subset = [e \in Executions |-> <<>>]

\* data_subset = random.sample(list(background_slices), 2)
\*             + random.sample(list(kidney_slices), 2)
SampleSubset(e) ==
    /\ sd_pc[e] = "sample"
    /\ LET s1 == sd_rng[e]
           s2 == Advance(Advance(s1))
       IN  /\ data_subset' = [data_subset EXCEPT ![e] =
                  random_sample(background_slices, s1) \o random_sample(kidney_slices, s2)]
           /\ sd_rng' = [sd_rng EXCEPT ![e] = Advance(Advance(s2))]
    /\ sd_pc' = [sd_pc EXCEPT ![e] = "seed"]
    /\ UNCHANGED sd_seed
    /\ SdFrame

\* seed = ...; random.seed(seed); the seed is printed and the subset is shown.
SetSeed(e) ==
    /\ sd_pc[e] = "seed"
    /\ sd_rng' = [sd_rng EXCEPT ![e] = random_seed(sd_seed[e])]
    /\ sd_pc' = [sd_pc EXCEPT ![e] = "shown"]
    /\ UNCHANGED <<sd_seed, data_subset>>
    /\ SdFrame

SdNext ==
    \/ \E e \in Executions : SampleSubset(e)
    \/ \E e \in Executions : SetSeed(e)

(***************************************************************************)
(* The specifications, one per notebook.                                   *)
(***************************************************************************)
InitPTQ ==
    PtqInit /\ PadIdle /\ GenIdle /\ LgIdle /\ NerIdle /\ WerIdle /\ QatIdle /\ SdIdle

SpecPTQ == InitPTQ /\ [][PtqNext]_vars

InitPaddle ==
    PtqIdle /\ PadInit /\ GenIdle /\ LgIdle /\ NerIdle /\ WerIdle /\ QatIdle /\ SdIdle

SpecPaddle == InitPaddle /\ [][PadNext]_vars

InitGenerate ==
    PtqIdle /\ PadIdle /\ GenInit /\ LgIdle /\ NerIdle /\ WerIdle /\ QatIdle /\ SdIdle

SpecGenerate == InitGenerate /\ [][GenNext]_vars

InitLogits ==
    PtqIdle /\ PadIdle /\ GenIdle /\ LgInit /\ NerIdle /\ WerIdle /\ QatIdle /\ SdIdle

SpecLogits == InitLogits /\ [][LgNext]_vars

InitEntities ==
    PtqIdle /\ PadIdle /\ GenIdle /\ LgIdle /\ NerInit /\ WerIdle /\ QatIdle /\ SdIdle

SpecEntities == InitEntities /\ [][NerNext]_vars

InitWER ==
    PtqIdle /\ PadIdle /\ GenIdle /\ LgIdle /\ NerIdle /\ WerInit /\ QatIdle /\ SdIdle

SpecWER == InitWER /\ [][WerNext]_vars

InitQAT ==
    PtqIdle /\ PadIdle /\ GenIdle /\ LgIdle /\ NerIdle /\ WerIdle /\ QatInit /\ SdIdle

SpecQAT == InitQAT /\ [][QatNext]_vars

InitSeed ==
    PtqIdle /\ PadIdle /\ GenIdle /\ LgIdle /\ NerIdle /\ WerIdle /\ QatIdle /\ SdInit

SpecSeed == InitSeed /\ [][SdNext]_vars

(***************************************************************************)
(* The properties.                                                         *)
(***************************************************************************)

\* Whether an event with this operation and this path comes before position i
\* of the history of the run of notebook 112.
Earlier(i, op, path) ==
    \E j \in 1..(i - 1) : ptq_log[j].op = op /\ ptq_log[j].path = path

\* C1: in a top-to-bottom run of notebook 112 the steps happen in the stated order
\* and no artifact is consumed before it is produced: the FP32 model is validated,
\* then exported to ONNX, before create_compressed_model; what is exported to
\* int8_onnx_path is the quantized model; Model Optimizer runs on an ONNX file that
\* this run wrote before; benchmark_app is run on an IR file that exists.
C1_PipelineOrder ==
    \A i \in DOMAIN ptq_log :
        LET e == ptq_log[i] IN
        /\ e.op = "create_compressed_model" =>
              /\ Earlier(i, "export_fp32", fp32_onnx_path)
              /\ \E j \in 1..(i - 1) :
                    /\ ptq_log[j].op = "validate_fp32"
                    /\ \E k \in (j + 1)..(i - 1) : ptq_log[k].op = "export_fp32"
        /\ e.path = fp32_onnx_path /\ e.op # "mo" => e.op = "export_fp32"
        /\ e.path = int8_onnx_path /\ e.op # "mo" =>
              e.op = "export_int8" /\ Earlier(i, "create_compressed_model", "")
        /\ e.op = "mo" =>
              /\ e.present
              /\ e.path = fp32_onnx_path => Earlier(i, "export_fp32", fp32_onnx_path)
              /\ e.path = int8_onnx_path => Earlier(i, "export_int8", int8_onnx_path)
        /\ e.op = "benchmark_app" => e.present

\* A run that converted both models with Model Optimizer and benchmarked both.
C1_Witness ==
    /\ ptq_pc = "done"
    /\ \E i, j \in DOMAIN ptq_log :
          /\ ptq_log[i] = Event("mo", fp32_onnx_path, TRUE)
          /\ ptq_log[j] = Event("mo", int8_onnx_path, TRUE)
    /\ \E i \in DOMAIN ptq_log : ptq_log[i] = Event("benchmark_app", int8_ir_path, TRUE)

\* C2: after wait_all() returned, total_time is the sum of the latencies the
\* callbacks measured, and the callback of each of the submitted requests has run
\* exactly once.
C2_TotalTimeIsSum ==
    pad_pc = "done" =>
        /\ total_time = pad_sum
        /\ Len(pad_done) = MaxLoop
        /\ \A i \in 0..(MaxLoop - 1) :
              Cardinality({k \in DOMAIN pad_done : pad_done[k] = i}) = 1

\* C3: generate_sequence called with an input of length L <= max_sequence_length
\* runs the model at most max_sequence_length - L + 1 times: every iteration that
\* does not break appends exactly one token, and the sequence never grows beyond
\* max_sequence_length.
C3_InferenceBound ==
    /\ gen_inferences <= max_sequence_length - gen_start_len + 1
    /\ Len(input_ids) <= max_sequence_length
    /\ gen_pc = "loop" => gen_inferences = Len(input_ids) - gen_start_len
    /\ gen_pc = "done" => gen_inferences >= 1

\* A call that ran the model the maximum number of times, more than once.
C3_Witness ==
    /\ gen_pc = "done"
    /\ gen_start_len < max_sequence_length
    /\ gen_inferences = max_sequence_length - gen_start_len + 1

\* The tokens of a row whose score is not -inf.
Finite(sc, r) == {t \in Vocab : sc[r][t] # NegInf}

\* C4: get_top_k_logits(scores, top_k) applied to finite scores, with
\* K = min(max(top_k, 1), vocabulary size): exactly K entries of each row of the
\* result are finite, they are the K largest scores of the row, unchanged, and
\* every other entry is -inf.
C4_TopKExactlyK ==
    (lg_stage = "filtered" /\ cur_length >= min_length) =>
        LET K == Min2(Max2(top_k, 1), VocabSize) IN
        \A r \in Rows :
            /\ Cardinality(Finite(scores, r)) = K
            /\ \A t \in Finite(scores, r) : scores[r][t] = lg_input[r][t]
            /\ \A t \in Finite(scores, r), u \in Vocab \ Finite(scores, r) :
                  lg_input[r][t] >= lg_input[r][u]

\* C5: process_logits sets the eos score of every row to -inf when
\* cur_length < min_length, leaving the other scores alone, and returns the scores
\* unchanged otherwise; applied before top-k filtering and sampling, the eos score
\* stays -inf and the token sampled is not the eos token.
C5_EosMasked ==
    /\ (lg_stage # "input" /\ cur_length < min_length) =>
          \A r \in Rows : scores[r][eos_token_id] = NegInf
    /\ (lg_stage = "processed" /\ cur_length < min_length) =>
          \A r \in Rows, t \in Vocab \ {eos_token_id} : scores[r][t] = lg_input[r][t]
    /\ (lg_stage = "processed" /\ cur_length >= min_length) => scores = lg_input
    /\ (lg_stage = "sampled" /\ cur_length < min_length) => next_tokens # eos_token_id

\* Below the minimum length the eos token had the largest logit of row 0, and
\* another token was sampled.
C5_Witness ==
    /\ lg_stage = "sampled"
    /\ cur_length < min_length
    /\ \A t \in Vocab : lg_input[0][eos_token_id] >= lg_input[0][t]
    /\ next_tokens \in Vocab \ {eos_token_id}

\* C6: every model input prepare_input builds for a context run_analyze_entities
\* accepts has at most 384 tokens, the upper bound of the model's input dimension.
C6_InputFitsModel ==
    \A size \in ner_sizes : size <= dimension_upper_bound

\* C7: a template field is in the "Extraction" list only if its score is more than
\* confidence_threshold, and every analyzed field whose score is not more than it
\* is absent.
C7_OnlyAboveThreshold ==
    \A k \in DOMAIN ner_scores :
        (\E n \in DOMAIN extract : extract[n].Type = template[k])
            <=> ner_scores[k] > confidence_threshold

\* C8: _sum_score is the total word-level edit distance between the reference
\* transcripts and the decoded predictions, _sum_words the total number of words
\* of the reference transcripts, and avg_value their quotient, 0 without words,
\* after updates that returned.
C8_WordErrorRate ==
    ~wer_raised =>
    /\ sum_score = wer_distance
    /\ sum_words = wer_ref_words
    /\ avg_value = IF wer_ref_words # 0 THEN <<wer_distance, wer_ref_words>> ELSE <<0, 1>>

\* C9: acc1_fp32, printed as the accuracy of the FP32 model, is the validation
\* accuracy of the weights exported to ONNX and of the weights given to
\* create_compressed_model.
C9_BaselineIsExportedModel ==
    /\ qat_exported.onnx # NoWeights => acc1_fp32 = qat_exported.onnx.acc
    /\ qat_exported.compressed # NoWeights => acc1_fp32 = qat_exported.compressed.acc

\* C10: two executions of the cell with the same seed show the same four slices in
\* the same order.
C10_SeedReproduces ==
    (sd_pc[1] = "shown" /\ sd_pc[2] = "shown" /\ sd_seed[1] = sd_seed[2]) =>
        data_subset[1] = data_subset[2]

=============================================================================
